---------------------------- MODULE Spec2Model ----------------------------
(***************************************************************************)
(* Dialogue decision engine of the beauty-salon voice receptionist         *)
(* (src/core_logic.py) and the caller-side session handling of src/app.py. *)
(*                                                                         *)
(* Text is a sequence of characters.  An ASCII character is the one-letter *)
(* string itself; any other character is the string "uXXXX" of its Unicode *)
(* code point (預 is "u9810").  The comment above a text constant gives    *)
(* the literal of the source.                                              *)
(***************************************************************************)
EXTENDS Integers, Sequences, FiniteSets, TLC

\* ------------------------------------------------------------------------
\* Bounds of the model
\* ------------------------------------------------------------------------
\* longest utterance of the pure-function specifications, in vocabulary segments
MaxSegs == 2
\* longest utterance of a session turn, in vocabulary segments
SessionSegs == 1
\* longest model text, in sentences
MaxSentences == 2

\* ------------------------------------------------------------------------
\* Python values
\* ------------------------------------------------------------------------
\* Optional[str]: None, or a str (possibly the empty one)
None == [isNone |-> TRUE, s |-> <<>>]
Str(t) == [isNone |-> FALSE, s |-> t]
\* truth value of an Optional[str]: None and "" are false
Truthy(v) == ~v.isNone /\ v.s # <<>>

\* A decoded JSON value: a dict (items: key -> Optional[str]) or a value of
\* another type, on which dict methods do not exist.
Dict(items) == [type |-> "dict", items |-> items]
NonDict(t) == [type |-> t, items |-> [k \in {} |-> None]]
\* dict.get(k)
Get(d, k) == IF k \in DOMAIN d.items THEN d.items[k] ELSE None
\* d[k] = v
SetItem(d, k, v) ==
    [d EXCEPT !.items = [x \in (DOMAIN d.items) \cup {k} |-> IF x = k THEN v ELSE d.items[x]]]
\* {}  (conversationState of a new page)
EmptyDict == Dict([k \in {} |-> None])

\* the result of a function that may raise
Ok(v) == [exc |-> "none", value |-> v]
Raise(e, v) == [exc |-> e, value |-> v]

\* ------------------------------------------------------------------------
\* str operations
\* ------------------------------------------------------------------------
UpperLetters == <<"A","B","C","D","E","F","G","H","I","J","K","L","M","N","O","P","Q","R","S","T","U","V","W","X","Y","Z">>
LowerLetters == <<"a","b","c","d","e","f","g","h","i","j","k","l","m","n","o","p","q","r","s","t","u","v","w","x","y","z">>
LowerChar(c) ==
    IF \E i \in 1..26 : UpperLetters[i] = c
    THEN LowerLetters[CHOOSE i \in 1..26 : UpperLetters[i] = c]
    ELSE c
\* str.lower()
lower(u) == [i \in 1..Len(u) |-> LowerChar(u[i])]
\* k in u
Contains(k, u) == \E i \in 1..(Len(u) - Len(k) + 1) : SubSeq(u, i, i + Len(k) - 1) = k
\* any(k in u for k in keys)
AnyIn(keys, u) == \E k \in keys : Contains(k, u)
Whitespace == {" ", "\t", "\n", "\r", "u00a0", "u3000"}
\* str.strip()
strip(u) ==
    LET nonws == {i \in 1..Len(u) : u[i] \notin Whitespace}
    IN  IF nonws = {} THEN <<>>
        ELSE SubSeq(u, CHOOSE i \in nonws : \A j \in nonws : i <= j,
                       CHOOSE i \in nonws : \A j \in nonws : j <= i)
\* u[:n]
Prefix(u, n) == SubSeq(u, 1, IF Len(u) < n THEN Len(u) ELSE n)
RECURSIVE Concat(_)
\* "".join(parts)
Concat(parts) == IF parts = <<>> THEN <<>> ELSE Head(parts) \o Concat(Tail(parts))

\* ------------------------------------------------------------------------
\* update_conversation_state  (State Extractor)
\* ------------------------------------------------------------------------
\* "深層清潔 facial"
T_deep == <<"u6df1", "u5c64", "u6e05", "u6f54", " ", "f", "a", "c", "i", "a", "l">>
\* "basic facial"
T_basic == <<"b", "a", "s", "i", "c", " ", "f", "a", "c", "i", "a", "l">>
\* "皮秒激光療程"
T_laser == <<"u76ae", "u79d2", "u6fc0", "u5149", "u7642", "u7a0b">>
\* "身體按摩"
T_massage == <<"u8eab", "u9ad4", "u6309", "u6469">>
Catalog == {T_deep, T_basic, T_laser, T_massage}

\* ["星期", "禮拜", "聽日", "後日", "今日", "今晚", "下晝", "夜晚", "點", "am", "pm"]
time_keywords == {<<"u661f", "u671f">>, <<"u79ae", "u62dc">>, <<"u807d", "u65e5">>, <<"u5f8c", "u65e5">>, <<"u4eca", "u65e5">>, <<"u4eca", "u665a">>, <<"u4e0b", "u665d">>, <<"u591c", "u665a">>, <<"u9ede">>, <<"a", "m">>, <<"p", "m">>}
BookingTimeMax == 50

\* variant: the chain with the body massage test first
DetectTreatment_massage_first(u) ==
    IF Contains(<<"u6309", "u6469">>, u) \/ Contains(<<"b", "o", "d", "y">>, lower(u)) THEN Str(T_massage)
    ELSE IF Contains(<<"u6df1", "u5c64", "u6e05", "u6f54">>, u) \/ Contains(<<"d", "e", "e", "p">>, lower(u)) THEN Str(T_deep)
    ELSE IF Contains(<<"b", "a", "s", "i", "c", " ", "f", "a", "c", "i", "a", "l">>, lower(u))
            \/ (Contains(<<"b", "a", "s", "i", "c">>, lower(u)) /\ Contains(<<"f", "a", "c", "i", "a", "l">>, lower(u))) THEN Str(T_basic)
    ELSE IF Contains(<<"u76ae", "u79d2">>, u) \/ Contains(<<"u6fc0", "u5149">>, u) THEN Str(T_laser)
    ELSE None

\* the treatment the utterance names, by the if/elif chain; None when it names none
DetectTreatment(u) ==
    IF Contains(<<"u6df1", "u5c64", "u6e05", "u6f54">>, u) \/ Contains(<<"d", "e", "e", "p">>, lower(u)) THEN Str(T_deep)
    ELSE IF Contains(<<"b", "a", "s", "i", "c", " ", "f", "a", "c", "i", "a", "l">>, lower(u))
            \/ (Contains(<<"b", "a", "s", "i", "c">>, lower(u)) /\ Contains(<<"f", "a", "c", "i", "a", "l">>, lower(u))) THEN Str(T_basic)
    ELSE IF Contains(<<"u76ae", "u79d2">>, u) \/ Contains(<<"u6fc0", "u5149">>, u) THEN Str(T_laser)
    ELSE IF Contains(<<"u6309", "u6469">>, u) \/ Contains(<<"b", "o", "d", "y">>, lower(u)) THEN Str(T_massage)
    ELSE None

\* variant: the treatment block without the test of line 87
WithTreatment_overwrite(d, u) ==
    IF ~DetectTreatment(u).isNone THEN SetItem(d, "treatment", DetectTreatment(u)) ELSE d

\* the dict after the treatment block
WithTreatment(d, u) ==
    IF ~Truthy(Get(d, "treatment")) /\ ~DetectTreatment(u).isNone
    THEN SetItem(d, "treatment", DetectTreatment(u))
    ELSE d

\* variant: the time block without [:50]
WithBookingTime_no_limit(d, u) ==
    IF ~Truthy(Get(d, "booking_time")) /\ AnyIn(time_keywords, u)
    THEN SetItem(d, "booking_time", Str(strip(u)))
    ELSE d

\* the dict after the time block
WithBookingTime(d, u) ==
    IF ~Truthy(Get(d, "booking_time")) /\ AnyIn(time_keywords, u)
    THEN SetItem(d, "booking_time", Str(Prefix(strip(u), BookingTimeMax)))
    ELSE d

\* variant: new_state = current_state, without .copy(): the writes reach the argument
ArgAfterUpdate_no_copy(current_state, user_text) ==
    IF current_state.type # "dict" THEN current_state
    ELSE WithBookingTime(WithTreatment(current_state, user_text), user_text)

\* the dict the caller passed, after the call: line 83 copies it and every
\* write of lines 89-101 goes to the copy
ArgAfterUpdate(current_state, user_text) == current_state

\* current_state.copy() and .get() exist on a dict only
update_conversation_state(current_state, user_text) ==
    IF current_state.type # "dict"
    THEN Raise("AttributeError", current_state)
    ELSE Ok(WithBookingTime(WithTreatment(current_state, user_text), user_text))

\* ------------------------------------------------------------------------
\* _should_use_quick_path  (Quick-Path Classifier)
\* ------------------------------------------------------------------------
\* ["預約", "約", "book", "改期", "幾點", "幾時", "邊日", "時間"]
booking_signals == {<<"u9810", "u7d04">>, <<"u7d04">>, <<"b", "o", "o", "k">>, <<"u6539", "u671f">>, <<"u5e7e", "u9ede">>, <<"u5e7e", "u6642">>, <<"u908a", "u65e5">>, <<"u6642", "u9593">>}
\* ["幾錢", "幾多錢", "價錢", "費用", "cost"]
price_signals == {<<"u5e7e", "u9322">>, <<"u5e7e", "u591a", "u9322">>, <<"u50f9", "u9322">>, <<"u8cbb", "u7528">>, <<"c", "o", "s", "t">>}
\* ["facial", "面部", "清潔", "皮膚", "做面"]
facial_signals == {<<"f", "a", "c", "i", "a", "l">>, <<"u9762", "u90e8">>, <<"u6e05", "u6f54">>, <<"u76ae", "u819a">>, <<"u505a", "u9762">>}

_should_use_quick_path(user_text, state) ==
    LET u == lower(user_text)
    IN  \/ AnyIn(booking_signals, u)
        \/ AnyIn(price_signals, u)
        \/ (AnyIn(facial_signals, u) /\ Truthy(Get(state, "treatment")))

\* ------------------------------------------------------------------------
\* quick_rule_reply  (Rule Responder)
\* ------------------------------------------------------------------------
\* variant: the booking keywords without "book"
rule_booking_keywords_no_book == {<<"u9810", "u7d04">>, <<"u7d04">>, <<"u6539", "u671f">>}
\* ["預約", "約", "book", "改期"]
rule_booking_keywords == {<<"u9810", "u7d04">>, <<"u7d04">>, <<"b", "o", "o", "k">>, <<"u6539", "u671f">>}
\* ["幾錢", "幾多錢", "價錢", "費用"]
rule_price_keywords == {<<"u5e7e", "u9322">>, <<"u5e7e", "u591a", "u9322">>, <<"u50f9", "u9322">>, <<"u8cbb", "u7528">>}
\* ["facial", "清潔", "皮膚"]
rule_service_keywords == {<<"f", "a", "c", "i", "a", "l">>, <<"u6e05", "u6f54">>, <<"u76ae", "u819a">>}
\* "營業時間", "幾時開", "幾時收"
rule_hours_keywords == {<<"u71df", "u696d", "u6642", "u9593">>, <<"u5e7e", "u6642", "u958b">>, <<"u5e7e", "u6642", "u6536">>}
\* "位置", "地址", "邊度"
rule_location_keywords == {<<"u4f4d", "u7f6e">>, <<"u5730", "u5740">>, <<"u908a", "u5ea6">>}

\* "好呀～你想預約邊款療程呢？basic facial 定深層清潔 facial？"
R_ask_treatment == <<"u597d", "u5440", "uff5e", "u4f60", "u60f3", "u9810", "u7d04", "u908a", "u6b3e", "u7642", "u7a0b", "u5462", "uff1f", "b", "a", "s", "i", "c", " ", "f", "a", "c", "i", "a", "l", " ", "u5b9a", "u6df1", "u5c64", "u6e05", "u6f54", " ", "f", "a", "c", "i", "a", "l", "uff1f">>
\* f"明白～你想預約 {treatment}。你想約邊日同幾點呢？"
R_ask_time(treatment) == <<"u660e", "u767d", "uff5e", "u4f60", "u60f3", "u9810", "u7d04", " ">> \o treatment \o <<"u3002", "u4f60", "u60f3", "u7d04", "u908a", "u65e5", "u540c", "u5e7e", "u9ede", "u5462", "uff1f">>
\* f"好～我幫你登記：{booking_time} 做 {treatment}。麻煩留低全名同電話號碼～"
R_confirm(booking_time, treatment) ==
    <<"u597d", "uff5e", "u6211", "u5e6b", "u4f60", "u767b", "u8a18", "uff1a">> \o booking_time \o <<" ", "u505a", " ">> \o treatment \o <<"u3002", "u9ebb", "u7169", "u7559", "u4f4e", "u5168", "u540d", "u540c", "u96fb", "u8a71", "u865f", "u78bc", "uff5e">>
\* "good，basic facial 係 $480 起。有咩皮膚問題想重點改善嗎？"
R_price_basic == <<"g", "o", "o", "d", "uff0c", "b", "a", "s", "i", "c", " ", "f", "a", "c", "i", "a", "l", " ", "u4fc2", " ", "$", "4", "8", "0", " ", "u8d77", "u3002", "u6709", "u54a9", "u76ae", "u819a", "u554f", "u984c", "u60f3", "u91cd", "u9ede", "u6539", "u5584", "u55ce", "uff1f">>
\* "deep facial 係 $680 起。幫你深層清潔同補水。"
R_price_deep == <<"d", "e", "e", "p", " ", "f", "a", "c", "i", "a", "l", " ", "u4fc2", " ", "$", "6", "8", "0", " ", "u8d77", "u3002", "u5e6b", "u4f60", "u6df1", "u5c64", "u6e05", "u6f54", "u540c", "u88dc", "u6c34", "u3002">>
\* f"你揀嘅 {treatment} 根據療程時間唔同，約 $680-$1800 左右。"
R_price_other(treatment) == <<"u4f60", "u63c0", "u5605", " ">> \o treatment \o <<" ", "u6839", "u64da", "u7642", "u7a0b", "u6642", "u9593", "u5514", "u540c", "uff0c", "u7d04", " ", "$", "6", "8", "0", "-", "$", "1", "8", "0", "0", " ", "u5de6", "u53f3", "u3002">>
\* "basic facial $480 起，深層清潔 $680，皮秒激光 $1800 起。你想了解邊款呢？"
R_price_list == <<"b", "a", "s", "i", "c", " ", "f", "a", "c", "i", "a", "l", " ", "$", "4", "8", "0", " ", "u8d77", "uff0c", "u6df1", "u5c64", "u6e05", "u6f54", " ", "$", "6", "8", "0", "uff0c", "u76ae", "u79d2", "u6fc0", "u5149", " ", "$", "1", "8", "0", "0", " ", "u8d77", "u3002", "u4f60", "u60f3", "u4e86", "u89e3", "u908a", "u6b3e", "u5462", "uff1f">>
\* f"好呀，關於 {treatment}，我哋可以幫你安排。你想幾時嚟做呢？"
R_service(treatment) == <<"u597d", "u5440", "uff0c", "u95dc", "u65bc", " ">> \o treatment \o <<"uff0c", "u6211", "u54cb", "u53ef", "u4ee5", "u5e6b", "u4f60", "u5b89", "u6392", "u3002", "u4f60", "u60f3", "u5e7e", "u6642", "u569f", "u505a", "u5462", "uff1f">>
\* "我哋營業時間係早上十一點到夜晚九點，星期一休息。"
R_hours == <<"u6211", "u54cb", "u71df", "u696d", "u6642", "u9593", "u4fc2", "u65e9", "u4e0a", "u5341", "u4e00", "u9ede", "u5230", "u591c", "u665a", "u4e5d", "u9ede", "uff0c", "u661f", "u671f", "u4e00", "u4f11", "u606f", "u3002">>
\* "我哋喺中環，具體地址你可以聯絡我時再畀你。你想先預約嗎？"
R_location == <<"u6211", "u54cb", "u55ba", "u4e2d", "u74b0", "uff0c", "u5177", "u9ad4", "u5730", "u5740", "u4f60", "u53ef", "u4ee5", "u806f", "u7d61", "u6211", "u6642", "u518d", "u7540", "u4f60", "u3002", "u4f60", "u60f3", "u5148", "u9810", "u7d04", "u55ce", "uff1f">>

\* variant: the price block placed before the booking block
RuleBranch_price_first(user_text, state) ==
    LET u == lower(user_text)
    IN  IF AnyIn(rule_price_keywords, u) THEN "price"
        ELSE IF AnyIn(rule_booking_keywords, u) THEN "booking"
        ELSE IF AnyIn(rule_service_keywords, u) /\ Truthy(Get(state, "treatment")) THEN "service"
        ELSE IF AnyIn(rule_hours_keywords, u) THEN "hours"
        ELSE IF AnyIn(rule_location_keywords, u) THEN "location"
        ELSE "none"

\* the branch of quick_rule_reply that answers: the first whose test holds
RuleBranch(user_text, state) ==
    LET u == lower(user_text)
    IN  IF AnyIn(rule_booking_keywords, u) THEN "booking"
        ELSE IF AnyIn(rule_price_keywords, u) THEN "price"
        ELSE IF AnyIn(rule_service_keywords, u) /\ Truthy(Get(state, "treatment")) THEN "service"
        ELSE IF AnyIn(rule_hours_keywords, u) THEN "hours"
        ELSE IF AnyIn(rule_location_keywords, u) THEN "location"
        ELSE "none"

\* variant: the booking block without the test of line 174
BookingReply_no_time_test(treatment, booking_time) ==
    IF ~Truthy(treatment) THEN R_ask_treatment
    ELSE R_confirm(booking_time.s, treatment.s)

BookingReply(treatment, booking_time) ==
    IF ~Truthy(treatment) THEN R_ask_treatment
    ELSE IF ~Truthy(booking_time) THEN R_ask_time(treatment.s)
    ELSE R_confirm(booking_time.s, treatment.s)

\* variant: the price block without the test of line 182
PriceReply_no_basic(treatment) ==
    IF Truthy(treatment)
    THEN IF treatment.s = T_deep THEN R_price_deep ELSE R_price_other(treatment.s)
    ELSE R_price_list

PriceReply(treatment) ==
    IF Truthy(treatment)
    THEN IF treatment.s = T_basic THEN R_price_basic
         ELSE IF treatment.s = T_deep THEN R_price_deep
         ELSE R_price_other(treatment.s)
    ELSE R_price_list

quick_rule_reply(user_text, state) ==
    LET treatment == Get(state, "treatment")
        booking_time == Get(state, "booking_time")
        branch == RuleBranch(user_text, state)
    IN  CASE branch = "booking" -> BookingReply(treatment, booking_time)
          [] branch = "price" -> PriceReply(treatment)
          [] branch = "service" -> R_service(treatment.s)
          [] branch = "hours" -> R_hours
          [] branch = "location" -> R_location
          [] OTHER -> <<>>

\* ------------------------------------------------------------------------
\* strip_brackets_and_symbols
\* ------------------------------------------------------------------------
\* [（\(]
OpenParens == {"uff08", "("}
\* [）\)]
CloseParens == {"uff09", ")"}
\* {0,40}
ParenSpanMax == 40
\* the index of the first parenthesis character after position i, 0 if none
NextParen(text, i) ==
    LET later == {j \in (i+1)..Len(text) : text[j] \in OpenParens \cup CloseParens}
    IN  IF later = {} THEN 0 ELSE CHOOSE j \in later : \A k \in later : j <= k
\* the pattern matches at i: an opening parenthesis, at most 40 characters
\* that are no parentheses, a closing parenthesis
ParenMatchEnd(text, i) ==
    LET j == NextParen(text, i)
    IN  IF text[i] \in OpenParens /\ j # 0 /\ text[j] \in CloseParens /\ j - i - 1 <= ParenSpanMax
        THEN j ELSE 0
\* the characters of text at the positions of the set keep, in order
Pick(text, keep) ==
    LET at == SelectSeq([i \in 1..Len(text) |-> i], LAMBDA i : i \in keep)
    IN  [k \in 1..Len(at) |-> text[at[k]]]
\* position i lies in a match of the pattern; two matches never overlap (a
\* match holds no parenthesis but its first and last character), so the
\* left-to-right pass of re.sub takes every one of them
InParenMatch(text, i) ==
    \E s \in 1..i : /\ i - s <= ParenSpanMax + 1
                    /\ ParenMatchEnd(text, s) >= i
\* re.sub(r"[（\(][^（）\(\)]{0,40}[）\)]", "", text): one left-to-right pass
RemoveParens(text) == Pick(text, {i \in 1..Len(text) : ~InParenMatch(text, i)})
\* "*", '"', "'" and the runs of [\-─═]
StrippedSymbols == {"*", "\"", "'", "-", "u2500", "u2550"}
strip_brackets_and_symbols(text) ==
    IF text = <<>> THEN <<>>
    ELSE strip(SelectSeq(RemoveParens(text), LAMBDA c : c \notin StrippedSymbols))

\* ------------------------------------------------------------------------
\* apply_hard_rules_to_reply  (Consistency Filter)
\* ------------------------------------------------------------------------
\* re.split(r"(? <=[。！？\?! ])\s*", raw_reply): "(? " opens no valid group,
\* re.compile raises re.error ("unknown extension ? ") whenever it is called
SplitPatternCompiles == FALSE
\* [。！？\?! ]
SplitClass == {"u3002", "uff01", "uff1f", "?", "!", " "}
RECURSIVE SplitAfter(_)
\* the pieces of a split after every character of the class
SplitAfter(raw) ==
    LET cuts == {i \in 1..Len(raw) : raw[i] \in SplitClass}
    IN  IF raw = <<>> THEN <<>>
        ELSE IF cuts = {} THEN <<raw>>
        ELSE LET i == CHOOSE c \in cuts : \A d \in cuts : c <= d
             IN  <<SubSeq(raw, 1, i)>> \o SplitAfter(SubSeq(raw, i + 1, Len(raw)))
\* ["想做咩", "邊款療程", "做邊款", "邊隻 facial"]
treatment_markers == {<<"u60f3", "u505a", "u54a9">>, <<"u908a", "u6b3e", "u7642", "u7a0b">>, <<"u505a", "u908a", "u6b3e">>, <<"u908a", "u96bb", " ", "f", "a", "c", "i", "a", "l">>}
\* ["幾點", "幾時", "邊日", "咩時間"]
time_markers == {<<"u5e7e", "u9ede">>, <<"u5e7e", "u6642">>, <<"u908a", "u65e5">>, <<"u54a9", "u6642", "u9593">>}
\* skip, for one sentence
SkipSentence(s, state) ==
    LET has_treatment == ~Get(state, "treatment").isNone
        has_time == ~Get(state, "booking_time").isNone
    IN  \/ (has_treatment /\ AnyIn(treatment_markers, s))
        \/ (has_time /\ AnyIn(time_markers, s))
RECURSIVE StripAll(_)
StripAll(ss) == IF ss = <<>> THEN <<>> ELSE <<strip(Head(ss))>> \o StripAll(Tail(ss))
\* filtered, after the loop
Filtered(sentences, state) ==
    StripAll(SelectSeq(sentences, LAMBDA s : strip(s) # <<>> /\ ~SkipSentence(s, state)))
RECURSIVE Join(_, _)
\* sep.join(parts)
Join(sep, parts) ==
    IF parts = <<>> THEN <<>>
    ELSE IF Len(parts) = 1 THEN Head(parts)
    ELSE Head(parts) \o sep \o Join(sep, Tail(parts))
\* cleaned, with the final "。" added
Cleaned(filtered) ==
    LET cleaned == strip(Join(<<"u3002">>, filtered))
    IN  IF cleaned # <<>> /\ cleaned[Len(cleaned)] # "u3002" THEN cleaned \o <<"u3002">> ELSE cleaned
\* lines 228-254, what follows the split
FilterBody(raw_reply, state) ==
    strip_brackets_and_symbols(Cleaned(Filtered(SplitAfter(raw_reply), state)))
apply_hard_rules_to_reply(raw_reply, state) ==
    IF raw_reply = <<>> THEN Ok(raw_reply)
    ELSE IF ~SplitPatternCompiles THEN Raise("re.error", <<>>)
    ELSE Ok(FilterBody(raw_reply, state))

\* ------------------------------------------------------------------------
\* generate_reply  (Dialogue Orchestrator)
\* ------------------------------------------------------------------------
\* "唔好意思，我頭先好似聽唔清楚，可以再講多次嗎？"
M_not_heard == <<"u5514", "u597d", "u610f", "u601d", "uff0c", "u6211", "u982d", "u5148", "u597d", "u4f3c", "u807d", "u5514", "u6e05", "u695a", "uff0c", "u53ef", "u4ee5", "u518d", "u8b1b", "u591a", "u6b21", "u55ce", "uff1f">>
\* "唔好意思，我暫時回應唔到，可以重新講嗎？"
M_cannot_respond == <<"u5514", "u597d", "u610f", "u601d", "uff0c", "u6211", "u66ab", "u6642", "u56de", "u61c9", "u5514", "u5230", "uff0c", "u53ef", "u4ee5", "u91cd", "u65b0", "u8b1b", "u55ce", "uff1f">>
\* "系統暫時繁忙，可以稍後再試嗎？"
M_busy == <<"u7cfb", "u7d71", "u66ab", "u6642", "u7e41", "u5fd9", "uff0c", "u53ef", "u4ee5", "u7a0d", "u5f8c", "u518d", "u8a66", "u55ce", "uff1f">>
\* "唔好意思，出咗啲技術問題，可以再講一次嗎？"
M_tech_problem == <<"u5514", "u597d", "u610f", "u601d", "uff0c", "u51fa", "u5497", "u5572", "u6280", "u8853", "u554f", "u984c", "uff0c", "u53ef", "u4ee5", "u518d", "u8b1b", "u4e00", "u6b21", "u55ce", "uff1f">>

\* response.text.strip(), "" when the response carries no text
_extract_text_from_response(response_text) == strip(response_text)

\* a or b, for str
OrElse(a, b) == IF a # <<>> THEN a ELSE b

\* One outcome of generate_reply: what it does next (return, raise, or wait
\* for the model), the return statement reached, and the returned pair.
Outcome(next, path, reply, st) == [next |-> next, path |-> path, reply |-> reply, state |-> st]

\* variant: without the test of line 288
generate_reply_begin_no_empty_check(user_text, current_state) ==
    LET upd == update_conversation_state(current_state, user_text)
        new_state == upd.value
        fast_reply == quick_rule_reply(user_text, new_state)
    IN  IF upd.exc # "none"
        THEN Outcome("raised", upd.exc, <<>>, current_state)
        ELSE IF _should_use_quick_path(user_text, new_state) /\ fast_reply # <<>>
             THEN Outcome("returned", "quick", fast_reply, new_state)
             ELSE Outcome("pending", "submit", <<>>, new_state)

\* variant: the quick path consulted with current_state instead of new_state
generate_reply_begin_stale_state(user_text, current_state) ==
    IF user_text = <<>>
    THEN Outcome("returned", "empty", M_not_heard, current_state)
    ELSE LET upd == update_conversation_state(current_state, user_text)
             new_state == upd.value
             fast_reply == quick_rule_reply(user_text, current_state)
         IN  IF upd.exc # "none"
             THEN Outcome("raised", upd.exc, <<>>, current_state)
             ELSE IF _should_use_quick_path(user_text, current_state) /\ fast_reply # <<>>
                  THEN Outcome("returned", "quick", fast_reply, new_state)
                  ELSE Outcome("pending", "submit", <<>>, new_state)

\* variant: the reply of an approved turn returned without the test of line 296
generate_reply_begin_no_fall_through(user_text, current_state) ==
    IF user_text = <<>>
    THEN Outcome("returned", "empty", M_not_heard, current_state)
    ELSE LET upd == update_conversation_state(current_state, user_text)
             new_state == upd.value
             fast_reply == quick_rule_reply(user_text, new_state)
         IN  IF upd.exc # "none"
             THEN Outcome("raised", upd.exc, <<>>, current_state)
             ELSE IF _should_use_quick_path(user_text, new_state)
                  THEN Outcome("returned", "quick", fast_reply, new_state)
                  ELSE Outcome("pending", "submit", <<>>, new_state)

\* lines 288-315: up to the first return, or to the submitted model call
generate_reply_begin(user_text, current_state) ==
    IF user_text = <<>>
    THEN Outcome("returned", "empty", M_not_heard, current_state)
    ELSE LET upd == update_conversation_state(current_state, user_text)
             new_state == upd.value
             fast_reply == quick_rule_reply(user_text, new_state)
         IN  IF upd.exc # "none"
             THEN Outcome("raised", upd.exc, <<>>, current_state)
             ELSE IF _should_use_quick_path(user_text, new_state) /\ fast_reply # <<>>
                  THEN Outcome("returned", "quick", fast_reply, new_state)
                  ELSE Outcome("pending", "submit", <<>>, new_state)

\* variant: except FuturesTimeoutError that returns a state without this turn's fields
on_timeout_rollback(user_text, new_state) ==
    Outcome("returned", "timeout", OrElse(quick_rule_reply(user_text, new_state), M_busy), EmptyDict)

\* except FuturesTimeoutError
on_timeout(user_text, new_state) ==
    Outcome("returned", "timeout", OrElse(quick_rule_reply(user_text, new_state), M_busy), new_state)

\* variant: except Exception without the rule fallback
on_exception_no_fallback(user_text, new_state) ==
    Outcome("returned", "error", M_tech_problem, new_state)

\* variant: except Exception that submits the model call again
on_exception_retry(user_text, new_state) ==
    Outcome("pending", "submit", <<>>, new_state)

\* variant: except Exception without the "or" default
on_exception_bare(user_text, new_state) ==
    Outcome("returned", "error", quick_rule_reply(user_text, new_state), new_state)

\* except Exception
on_exception(user_text, new_state) ==
    Outcome("returned", "error", OrElse(quick_rule_reply(user_text, new_state), M_tech_problem), new_state)

\* lines 316-335 once fut.result() has the worker's result: the response
\* text, or the exception the worker raised
generate_reply_result(worker_state, response_text, user_text, new_state) ==
    LET reply_text == _extract_text_from_response(response_text)
        filtered == apply_hard_rules_to_reply(reply_text, new_state)
    IN  IF worker_state = "error" THEN on_exception(user_text, new_state)
        ELSE IF reply_text # <<>>
             THEN IF filtered.exc # "none"
                  THEN on_exception(user_text, new_state)
                  ELSE Outcome("returned", "model", filtered.value, new_state)
             ELSE Outcome("returned", "no_text", M_cannot_respond, new_state)

\* ------------------------------------------------------------------------
\* reset_memory
\* ------------------------------------------------------------------------
reset_memory == Dict([k \in {"treatment", "booking_time"} |-> None])

\* ------------------------------------------------------------------------
\* Inputs
\* ------------------------------------------------------------------------
\* the texts made of at most n segments of V
Texts(V, n) == UNION {{Concat(s) : s \in [1..k -> V]} : k \in 0..n}

\* "我想預約", "book", "幾點", "幾錢", "cost", "Basic Facial", "深層清潔",
\* "皮秒", "按摩", "聽日", "PM", "營業時間", "地址", "你好", " "
Vocab == {<<"u6211", "u60f3", "u9810", "u7d04">>, <<"b", "o", "o", "k">>, <<"u5e7e", "u9ede">>, <<"u5e7e", "u9322">>, <<"c", "o", "s", "t">>, <<"B", "a", "s", "i", "c", " ", "F", "a", "c", "i", "a", "l">>, <<"u6df1", "u5c64", "u6e05", "u6f54">>,
          <<"u76ae", "u79d2">>, <<"u6309", "u6469">>, <<"u807d", "u65e5">>, <<"P", "M">>, <<"u71df", "u696d", "u6642", "u9593">>, <<"u5730", "u5740">>, <<"u4f60", "u597d">>, <<" ">>}
Utterances == Texts(Vocab, MaxSegs)

\* an utterance of more than BookingTimeMax characters that names a time
LongUtterance == <<"u6211", "u807d", "u65e5", "u4e0b", "u665d", "u8981", "u8fd4", "u5de5", "uff0c", "u5f8c", "u65e5", "u591c", "u665a", "u5148", "u5f97", "u9592", "uff0c", "u53ef", "u5514", "u53ef", "u4ee5", "u5e6b", "u6211", "u7747", "u5413", "u5f8c", "u65e5", "u591c", "u665a", "u4e03", "u9ede", "u4e4b", "u5f8c", "u4ef2", "u6709", "u5187", "u4f4d", "uff0c", "u5982", "u679c", "u5187", "u5c31", "u661f", "u671f", "u516d", "u671d", "u65e9", "u90fd", "u5f97", "uff0c", "u5514", "u8a72", "u6652", "u4f60", "u5440">>
\* "我想預約", "幾點", "幾錢", "basic facial", "深層清潔聽日", "地址", "你好"
SessionVocab == {<<"u6211", "u60f3", "u9810", "u7d04">>, <<"u5e7e", "u9ede">>, <<"u5e7e", "u9322">>, <<"b", "a", "s", "i", "c", " ", "f", "a", "c", "i", "a", "l">>, <<"u6df1", "u5c64", "u6e05", "u6f54", "u807d", "u65e5">>, <<"u5730", "u5740">>, <<"u4f60", "u597d">>}
\* the utterances of a session: the segments joined, and the long utterance
SessionUtterances == Texts(SessionVocab, SessionSegs) \cup {LongUtterance}

\* "好呀。", "你想做邊款療程？", "你想約幾點呢！", "(慢慢講)", " "
SentenceVocab == {<<"u597d", "u5440", "u3002">>, <<"u4f60", "u60f3", "u505a", "u908a", "u6b3e", "u7642", "u7a0b", "uff1f">>, <<"u4f60", "u60f3", "u7d04", "u5e7e", "u9ede", "u5462", "uff01">>, <<"(", "u6162", "u6162", "u8b1b", ")">>, <<" ">>}
ModelTexts == Texts(SentenceVocab, MaxSentences)

\* the values a field of the state can hold
TreatmentValues == {None} \cup {Str(t) : t \in Catalog}
\* "聽日三點"
BookingTimeValues == {None, Str(<<"u807d", "u65e5", "u4e09", "u9ede">>)}
\* the states the engine produces: both keys, set or None
EngineStates ==
    {Dict([k \in {"treatment", "booking_time"} |-> IF k = "treatment" THEN t ELSE b]) :
        t \in TreatmentValues, b \in BookingTimeValues}
\* what a caller can post as "state": any JSON value
CallerStates ==
    EngineStates
    \cup {EmptyDict, NonDict("NoneType"), NonDict("list"),
          Dict([k \in {"treatment"} |-> Str(T_basic)]),
          Dict([k \in {"treatment", "booking_time"} |-> Str(<<>>)])}

\* ------------------------------------------------------------------------
\* sanitize_tts_text
\* ------------------------------------------------------------------------
\* "斜線", "slash", "／", "\", "/"
SlashTokens == {<<"u659c", "u7dda">>, <<"s", "l", "a", "s", "h">>, <<"uff0f">>, <<"\\">>, <<"/">>}
\* the length of the alternative of (斜線|slash|／|\\|/) that matches at i
\* under re.I, 0 when none does
SlashAt(text, i) ==
    LET m == {k \in SlashTokens : /\ i + Len(k) - 1 <= Len(text)
                                  /\ lower(SubSeq(text, i, i + Len(k) - 1)) = k}
    IN  IF m = {} THEN 0 ELSE Len(CHOOSE k \in m : TRUE)
\* position i lies in an occurrence of an alternative; no two occurrences
\* overlap, so the pass of re.sub takes every one of them
InSlash(text, i) ==
    \E s \in 1..i : SlashAt(text, s) > 0 /\ i < s + SlashAt(text, s)
\* re.sub(r"(斜線|slash|／|\\|/)+", " ", text, flags=re.I): a run of
\* occurrences leaves one blank, at the place of its first character
ReplaceSlashes(text) ==
    LET blanked == [i \in 1..Len(text) |-> IF InSlash(text, i) THEN " " ELSE text[i]]
    IN  Pick(blanked, {i \in 1..Len(text) : InSlash(text, i) => (i = 1 \/ ~InSlash(text, i - 1))})
\* re.sub(r"\s+", " ", text)
CollapseWhitespace(text) ==
    LET blanked == [i \in 1..Len(text) |-> IF text[i] \in Whitespace THEN " " ELSE text[i]]
    IN  Pick(blanked, {i \in 1..Len(text) : text[i] \in Whitespace => (i = 1 \/ text[i - 1] \notin Whitespace)})
sanitize_tts_text(text) ==
    IF text = <<>> THEN <<>>
    ELSE strip(CollapseWhitespace(ReplaceSlashes(strip_brackets_and_symbols(text))))

\* ------------------------------------------------------------------------
\* tts_to_mp3, up to the synthesizer call
\* ------------------------------------------------------------------------
\* int(os.getenv("MAX_REPLY_CHARS", "180")): the default
MaxReplyCharsDefault == 180
\* "唔好意思，我頭先聽唔清楚，可以再講一次嗎？"  (api_voice, when the reply is empty)
M_api_not_heard == <<"u5514", "u597d", "u610f", "u601d", "uff0c", "u6211", "u982d", "u5148", "u807d", "u5514", "u6e05", "u695a", "uff0c", "u53ef", "u4ee5", "u518d", "u8b1b", "u4e00", "u6b21", "u55ce", "uff1f">>
\* t[:n] for any integer n
Slice(t, n) ==
    IF n >= 0 THEN Prefix(t, n)
    ELSE Prefix(t, IF Len(t) + n > 0 THEN Len(t) + n ELSE 0)
\* variant: without the truncation of lines 147-148
SynthText_no_truncation(t, max_chars) == t
\* lines 146-148: the sanitized, stripped text t as it reaches the synthesizer
SynthText(t, max_chars) == IF Len(t) > max_chars THEN Slice(t, max_chars) ELSE t
\* variant: a lock that is handed out while it is held
CanAcquire_held(lock) == TRUE
\* _TTS_LOCK.acquire() returns when the lock is free (0: no holder)
CanAcquire(lock) == lock = 0

\* "你好", "(慢慢講)", "（", "(", ")", "/", "Slash", " "
SanitizerVocab == {<<"u4f60", "u597d">>, <<"(", "u6162", "u6162", "u8b1b", ")">>, <<"uff08">>, <<"(">>, <<")">>, <<"/">>, <<"S", "l", "a", "s", "h">>, <<" ">>}
SanitizerTexts == Texts(SanitizerVocab, MaxSegs)

\* ------------------------------------------------------------------------
\* Inputs of the concurrent specifications
\* ------------------------------------------------------------------------
\* the pages talking to the server at the same time
NumSessions == 2
Sessions == 1..NumSessions
\* "你好", "basic facial", "我想預約"
MultiUtterances == {<<"u4f60", "u597d">>, <<"b", "a", "s", "i", "c", " ", "f", "a", "c", "i", "a", "l">>, <<"u6211", "u60f3", "u9810", "u7d04">>}
\* "", "好呀。"
MultiModelTexts == {<<>>, <<"u597d", "u5440", "u3002">>}

\* the requests whose tts_to_mp3 calls run at the same time
NumRequests == 2
Requests == 1..NumRequests
\* the segments of the long reply: more than MaxReplyCharsDefault characters
LongReplySegs == 91
\* "你好" repeated
LongReply == [i \in 1..(2 * LongReplySegs) |-> <<"u4f60", "u597d">>[((i - 1) % 2) + 1]]
\* the replies api_voice gets from generate_reply:
\* "", "你 好", "你好(慢慢講)", "(慢慢講)", "你好你好..."
TtsReplies == {<<>>, <<"u4f60", " ", "u597d">>, <<"u4f60", "u597d", "(", "u6162", "u6162", "u8b1b", ")">>, <<"(", "u6162", "u6162", "u8b1b", ")">>, LongReply}
\* lines 247-248 of api_voice and 139-140 of tts_to_mp3, for each of them:
\* the reply, replaced when empty, then sanitized and stripped
SanitizedReply ==
    [reply_text \in TtsReplies |-> strip(sanitize_tts_text(OrElse(reply_text, M_api_not_heard)))]
\* values of MAX_REPLY_CHARS
MaxCharsValues == {-1, 0, 3, MaxReplyCharsDefault}

\* ------------------------------------------------------------------------
\* State
\* ------------------------------------------------------------------------
VARIABLES
    state,          \* conversationState, held by the caller between turns
    pc,             \* generate_reply: "idle", "pending" (in fut.result), "shutdown"
                    \* (leaving the with block after the timeout), "returned", "raised"
    user_text,      \* generate_reply's parameter
    current_state,  \* generate_reply's parameter
    new_state,      \* generate_reply's local
    worker,         \* the future of _call_gemini: "none", "running", "response", "error"
    model_calls,    \* ex.submit(_call_gemini) calls of the current generate_reply call
    response_text,  \* response.text of the response fut.result() returned
    path,           \* the return statement the call left by
    reply,          \* the returned reply
    ret_state,      \* the returned state
    fn,             \* the pure function applied last ("none" before any)
    arg_text,       \* its text argument
    arg_state,      \* its state argument
    result,         \* its result
    sessions,       \* several pages, each with its conversationState and its call
    tts,            \* the tts_to_mp3 calls of the requests being handled
    tts_lock,       \* _TTS_LOCK: the request holding it, 0 when free
    max_chars       \* MAX_REPLY_CHARS of the environment, as an integer

call_vars == <<pc, user_text, current_state, new_state, worker, model_calls, response_text, path, reply, ret_state>>
pure_vars == <<fn, arg_text, arg_state, result>>
multi_vars == <<sessions>>
tts_vars == <<tts, tts_lock, max_chars>>
vars == <<state, call_vars, pure_vars, multi_vars, tts_vars>>

\* the result of a pure function: the exception, and the value by type
Result(exc, text, flag, st) == [exc |-> exc, text |-> text, flag |-> flag, state |-> st]
NoResult == Result("none", <<>>, FALSE, EmptyDict)

IdleCall ==
    /\ pc = "idle"
    /\ user_text = <<>>
    /\ current_state = EmptyDict
    /\ new_state = EmptyDict
    /\ worker = "none"
    /\ model_calls = 0
    /\ response_text = <<>>
    /\ path = "none"
    /\ reply = <<>>
    /\ ret_state = EmptyDict

NoPure ==
    /\ fn = "none"
    /\ arg_text = <<>>
    /\ arg_state = EmptyDict
    /\ result = NoResult

\* one page and its generate_reply call, as the variables of a single session
SessionCall(st, p, u, cs, ns, w, timed_out, rt, r, rs) ==
    [state |-> st, pc |-> p, user_text |-> u, current_state |-> cs, new_state |-> ns,
     worker |-> w, timed_out |-> timed_out, response_text |-> rt, reply |-> r, ret_state |-> rs]
IdleSession(st) ==
    SessionCall(st, "idle", <<>>, EmptyDict, EmptyDict, "none", FALSE, <<>>, <<>>, EmptyDict)
NoMulti == sessions = [s \in Sessions |-> IdleSession(EmptyDict)]

\* one tts_to_mp3 call: the reply api_voice got for it, the text it hands to
\* the synthesizer, and its result
TtsState(p, reply_text, t, ok) == [pc |-> p, reply_text |-> reply_text, t |-> t, ok |-> ok]
IdleTts == TtsState("idle", <<>>, <<>>, FALSE)
NoTts ==
    /\ tts = [r \in Requests |-> IdleTts]
    /\ tts_lock = 0
    /\ max_chars = MaxReplyCharsDefault

\* a new page: conversationState = {}
Init ==
    /\ state = EmptyDict
    /\ IdleCall
    /\ NoPure
    /\ NoMulti
    /\ NoTts

\* a caller that posts any JSON value as the state of its first turn
InitAny ==
    /\ state \in CallerStates
    /\ IdleCall
    /\ NoPure
    /\ NoMulti
    /\ NoTts

\* ------------------------------------------------------------------------
\* One turn: generate_reply(user_text, state)
\* ------------------------------------------------------------------------
\* sets the variables of the call from an outcome
Leave(o) ==
    /\ pc' = o.next
    /\ path' = o.path
    /\ reply' = o.reply
    /\ ret_state' = o.state

\* ex.submit(_call_gemini), when the outcome leaves a model call submitted
Submit(o) ==
    /\ worker' = IF o.next = "pending" THEN "running" ELSE worker
    /\ model_calls' = IF o.next = "pending" THEN model_calls + 1 ELSE model_calls

\* the call, up to its first return or to ex.submit(_call_gemini)
GenerateReply(u) ==
    /\ pc = "idle"
    /\ LET o == generate_reply_begin(u, state)
       IN  /\ user_text' = u
           /\ current_state' = IF u = <<>> THEN state ELSE ArgAfterUpdate(state, u)
           /\ new_state' = o.state
           /\ response_text' = <<>>
           /\ Submit(o)
           /\ Leave(o)
    /\ UNCHANGED <<state, pure_vars, multi_vars, tts_vars>>

\* gemini_model.generate_content returns a response
ModelResponds ==
    /\ worker = "running"
    /\ worker' = "response"
    /\ UNCHANGED <<state, pc, user_text, current_state, new_state, model_calls, response_text, path, reply, ret_state, pure_vars, multi_vars, tts_vars>>

\* gemini_model.generate_content raises
ModelRaises ==
    /\ worker = "running"
    /\ worker' = "error"
    /\ UNCHANGED <<state, pc, user_text, current_state, new_state, model_calls, response_text, path, reply, ret_state, pure_vars, multi_vars, tts_vars>>

\* fut.result(timeout=GEMINI_TIMEOUT_S) raises TimeoutError: the with block is
\* left through ThreadPoolExecutor.__exit__, which is shutdown(wait=True)
FutureTimeout ==
    /\ pc = "pending"
    /\ worker = "running"
    /\ pc' = "shutdown"
    /\ UNCHANGED <<state, user_text, current_state, new_state, worker, model_calls, response_text, path, reply, ret_state, pure_vars, multi_vars, tts_vars>>

\* fut.result() returns the response (with text t) or re-raises the worker's
\* exception; the worker has ended, shutdown(wait=True) returns at once
FutureResult(t) ==
    /\ pc = "pending"
    /\ worker \in {"response", "error"}
    /\ response_text' = IF worker = "response" THEN t ELSE <<>>
    /\ Submit(generate_reply_result(worker, t, user_text, new_state))
    /\ Leave(generate_reply_result(worker, t, user_text, new_state))
    /\ UNCHANGED <<state, user_text, current_state, new_state, pure_vars, multi_vars, tts_vars>>

\* shutdown(wait=True) has joined the worker thread: the TimeoutError reaches
\* except FuturesTimeoutError
ExecutorShutdown ==
    /\ pc = "shutdown"
    /\ worker \in {"response", "error"}
    /\ Submit(on_timeout(user_text, new_state))
    /\ Leave(on_timeout(user_text, new_state))
    /\ UNCHANGED <<state, user_text, current_state, new_state, response_text, pure_vars, multi_vars, tts_vars>>

\* the caller keeps the returned state for its next turn (after an exception
\* api_voice answers with the posted state)
Deliver ==
    /\ pc \in {"returned", "raised"}
    /\ state' = IF pc = "returned" THEN ret_state ELSE state
    /\ pc' = "idle"
    /\ user_text' = <<>>
    /\ current_state' = EmptyDict
    /\ new_state' = EmptyDict
    /\ worker' = "none"
    /\ model_calls' = 0
    /\ response_text' = <<>>
    /\ path' = "none"
    /\ reply' = <<>>
    /\ ret_state' = EmptyDict
    /\ UNCHANGED <<pure_vars, multi_vars, tts_vars>>

\* btnReset.onclick and /api/reset: the button is enabled at all times, also
\* while a turn is awaiting its response
Reset ==
    /\ state' = reset_memory
    /\ UNCHANGED <<call_vars, pure_vars, multi_vars, tts_vars>>

Next ==
    \/ \E u \in SessionUtterances : GenerateReply(u)
    \/ ModelResponds
    \/ ModelRaises
    \/ FutureTimeout
    \/ \E t \in ModelTexts : FutureResult(t)
    \/ ExecutorShutdown
    \/ Deliver
    \/ Reset

\* a session
Spec == Init /\ [][Next]_vars
\* a session whose first state is any value the caller posts
SpecAny == InitAny /\ [][Next]_vars

\* ------------------------------------------------------------------------
\* The pure functions, applied to inputs of bounded size
\* ------------------------------------------------------------------------
\* the dict states a pure function is applied to
PureStates == EngineStates \cup {EmptyDict}

InitPure ==
    /\ state = EmptyDict
    /\ IdleCall
    /\ fn = "none"
    /\ arg_text \in Utterances \cup ModelTexts \cup SanitizerTexts
    /\ arg_state \in PureStates
    /\ result = NoResult
    /\ NoMulti
    /\ NoTts

Apply(name, r, arg_after) ==
    /\ fn = "none"
    /\ fn' = name
    /\ result' = r
    /\ arg_state' = arg_after
    /\ UNCHANGED <<state, call_vars, arg_text, multi_vars, tts_vars>>

ApplyExtract ==
    LET r == update_conversation_state(arg_state, arg_text)
    IN  Apply("update_conversation_state", Result(r.exc, <<>>, FALSE, r.value),
              ArgAfterUpdate(arg_state, arg_text))

ApplyClassify ==
    Apply("_should_use_quick_path", Result("none", <<>>, _should_use_quick_path(arg_text, arg_state), arg_state),
          arg_state)

ApplyRule ==
    Apply("quick_rule_reply", Result("none", quick_rule_reply(arg_text, arg_state), FALSE, arg_state),
          arg_state)

ApplyFilter ==
    LET r == apply_hard_rules_to_reply(arg_text, arg_state)
    IN  Apply("apply_hard_rules_to_reply", Result(r.exc, r.value, FALSE, arg_state), arg_state)

ApplySanitize ==
    Apply("sanitize_tts_text", Result("none", sanitize_tts_text(arg_text), FALSE, arg_state), arg_state)

NextPure ==
    \/ ApplyExtract
    \/ ApplyClassify
    \/ ApplyRule
    \/ ApplyFilter
    \/ ApplySanitize

SpecPure == InitPure /\ [][NextPure]_vars

\* ------------------------------------------------------------------------
\* Several sessions: generate_reply calls of different pages, interleaved
\* (app.run(threaded=True): one thread per request)
\* ------------------------------------------------------------------------
\* variant: a module-level state the engine keeps from the call of session 1
WorkingState_remembered(ss, s, arg) ==
    IF s = 1 THEN arg ELSE ss[1].new_state

\* the state a call works on is its argument: core_logic keeps no session
\* table and no variable written by a call
WorkingState(ss, s, arg) == arg

InitMulti ==
    /\ state = EmptyDict
    /\ IdleCall
    /\ NoPure
    /\ NoMulti
    /\ NoTts

\* sets the call of session s from an outcome
MultiLeave(s, o, w, timed_out, rt) ==
    /\ sessions' = [sessions EXCEPT ![s] =
           SessionCall(@.state, o.next, @.user_text, @.current_state, @.new_state,
                       IF o.next = "pending" THEN "running" ELSE w, timed_out, rt,
                       o.reply, o.state)]
    /\ UNCHANGED <<state, call_vars, pure_vars, tts_vars>>

MultiGenerateReply(s, u) ==
    /\ sessions[s].pc = "idle"
    /\ LET o == generate_reply_begin(u, WorkingState(sessions, s, sessions[s].state))
       IN  sessions' = [sessions EXCEPT ![s] =
               SessionCall(@.state, o.next, u, @.state, o.state,
                           IF o.next = "pending" THEN "running" ELSE "none", FALSE, <<>>,
                           o.reply, o.state)]
    /\ UNCHANGED <<state, call_vars, pure_vars, tts_vars>>

MultiModelResponds(s) ==
    /\ sessions[s].worker = "running"
    /\ sessions' = [sessions EXCEPT ![s].worker = "response"]
    /\ UNCHANGED <<state, call_vars, pure_vars, tts_vars>>

MultiModelRaises(s) ==
    /\ sessions[s].worker = "running"
    /\ sessions' = [sessions EXCEPT ![s].worker = "error"]
    /\ UNCHANGED <<state, call_vars, pure_vars, tts_vars>>

MultiFutureTimeout(s) ==
    /\ sessions[s].pc = "pending"
    /\ sessions[s].worker = "running"
    /\ sessions' = [sessions EXCEPT ![s].pc = "shutdown", ![s].timed_out = TRUE]
    /\ UNCHANGED <<state, call_vars, pure_vars, tts_vars>>

MultiFutureResult(s, t) ==
    /\ sessions[s].pc = "pending"
    /\ sessions[s].worker \in {"response", "error"}
    /\ MultiLeave(s, generate_reply_result(sessions[s].worker, t, sessions[s].user_text,
                                           sessions[s].new_state),
                  sessions[s].worker, FALSE,
                  IF sessions[s].worker = "response" THEN t ELSE <<>>)

MultiExecutorShutdown(s) ==
    /\ sessions[s].pc = "shutdown"
    /\ sessions[s].worker \in {"response", "error"}
    /\ MultiLeave(s, on_timeout(sessions[s].user_text, sessions[s].new_state),
                  sessions[s].worker, TRUE, <<>>)

\* the page of session s takes the response: conversationState = j.state
MultiDeliver(s) ==
    /\ sessions[s].pc = "returned"
    /\ sessions' = [sessions EXCEPT ![s] = IdleSession(@.ret_state)]
    /\ UNCHANGED <<state, call_vars, pure_vars, tts_vars>>

NextMulti ==
    \E s \in Sessions :
        \/ \E u \in MultiUtterances : MultiGenerateReply(s, u)
        \/ MultiModelResponds(s)
        \/ MultiModelRaises(s)
        \/ MultiFutureTimeout(s)
        \/ \E t \in MultiModelTexts : MultiFutureResult(s, t)
        \/ MultiExecutorShutdown(s)
        \/ MultiDeliver(s)

SpecMulti == InitMulti /\ [][NextMulti]_vars

\* ------------------------------------------------------------------------
\* tts_to_mp3 calls of concurrently handled requests
\* (app.run(threaded=True): one thread per request; one _TTS_LOCK)
\* ------------------------------------------------------------------------
InitTts ==
    /\ state = EmptyDict
    /\ IdleCall
    /\ NoPure
    /\ NoMulti
    /\ tts = [r \in Requests |-> IdleTts]
    /\ tts_lock = 0
    /\ max_chars \in MaxCharsValues

\* api_voice lines 247-255 and tts_to_mp3 lines 139-148: the reply, replaced
\* when empty, is sanitized; an empty text returns (False, "文字為空"), any
\* other is cut to max_chars
TtsBegin(r, reply_text) ==
    /\ tts[r].pc = "idle"
    /\ LET t == SanitizedReply[reply_text]
       IN  tts' = [tts EXCEPT ![r] =
               IF t = <<>>
               THEN TtsState("done", reply_text, <<>>, FALSE)
               ELSE TtsState("prepared", reply_text, SynthText(t, max_chars), FALSE)]
    /\ UNCHANGED <<state, call_vars, pure_vars, multi_vars, tts_lock, max_chars>>

\* lines 156-158: the output file is unlinked and the synthesizer is built
TtsSynthesizerReady(r) ==
    /\ tts[r].pc = "prepared"
    /\ tts' = [tts EXCEPT ![r].pc = "waiting"]
    /\ UNCHANGED <<state, call_vars, pure_vars, multi_vars, tts_lock, max_chars>>

\* AudioOutputConfig or SpeechSynthesizer raises: except Exception, line 174
TtsSetupRaises(r) ==
    /\ tts[r].pc = "prepared"
    /\ tts' = [tts EXCEPT ![r].pc = "done"]
    /\ UNCHANGED <<state, call_vars, pure_vars, multi_vars, tts_lock, max_chars>>

\* with _TTS_LOCK: entered; synth.speak_text_async(t) is started
TtsAcquire(r) ==
    /\ tts[r].pc = "waiting"
    /\ CanAcquire(tts_lock)
    /\ tts_lock' = r
    /\ tts' = [tts EXCEPT ![r].pc = "speaking"]
    /\ UNCHANGED <<state, call_vars, pure_vars, multi_vars, max_chars>>

\* .get() returns a result (completed or not); the with block is left
TtsSpeakReturns(r, ok) ==
    /\ tts[r].pc = "speaking"
    /\ tts_lock' = IF tts_lock = r THEN 0 ELSE tts_lock
    /\ tts' = [tts EXCEPT ![r].pc = "done", ![r].ok = ok]
    /\ UNCHANGED <<state, call_vars, pure_vars, multi_vars, max_chars>>

\* .get() raises; the with block releases the lock on the way out
TtsSpeakRaises(r) ==
    /\ tts[r].pc = "speaking"
    /\ tts_lock' = IF tts_lock = r THEN 0 ELSE tts_lock
    /\ tts' = [tts EXCEPT ![r].pc = "done"]
    /\ UNCHANGED <<state, call_vars, pure_vars, multi_vars, max_chars>>

\* the request is answered; its thread ends and another request may come
TtsReturn(r) ==
    /\ tts[r].pc = "done"
    /\ tts' = [tts EXCEPT ![r] = IdleTts]
    /\ UNCHANGED <<state, call_vars, pure_vars, multi_vars, tts_lock, max_chars>>

\* the steps a request's thread takes once its tts_to_mp3 call has begun
TtsStep(r) ==
    \/ TtsSynthesizerReady(r)
    \/ TtsAcquire(r)
    \/ \E ok \in BOOLEAN : TtsSpeakReturns(r, ok)
    \/ TtsReturn(r)

NextTts ==
    \E r \in Requests :
        \/ \E reply_text \in TtsReplies : TtsBegin(r, reply_text)
        \/ TtsSynthesizerReady(r)
        \/ TtsSetupRaises(r)
        \/ TtsAcquire(r)
        \/ \E ok \in BOOLEAN : TtsSpeakReturns(r, ok)
        \/ TtsSpeakRaises(r)
        \/ TtsReturn(r)

SpecTts == InitTts /\ [][NextTts]_vars

\* every thread that can take a step of its call eventually takes one, and
\* a synthesis in progress ends; nothing says which of the threads blocked in
\* _TTS_LOCK.acquire() proceeds when the lock is released, and nothing
\* makes a new request arrive
SpecTtsFair == SpecTts /\ \A r \in Requests : WF_vars(TtsStep(r))

\* ------------------------------------------------------------------------
\* Properties
\* ------------------------------------------------------------------------
TrackedFields == {"treatment", "booking_time"}

\* C1: first-write-wins across a session.  Each turn receives the state the
\* previous turn returned; a field that is set in the caller's state keeps
\* its value in every step of the session other than a reset.
C1_FirstWriteWins ==
    [][Reset \/ \A k \in TrackedFields : Truthy(Get(state, k)) => Get(state', k) = Get(state, k)]_vars

\* a turn has returned whose utterance names another treatment than the one
\* the session holds, and a time although the session holds one
C1_Witness ==
    /\ pc = "returned"
    /\ Truthy(Get(current_state, "treatment"))
    /\ Truthy(Get(current_state, "booking_time"))
    /\ ~DetectTreatment(user_text).isNone
    /\ DetectTreatment(user_text) # Get(current_state, "treatment")
    /\ AnyIn(time_keywords, user_text)
    /\ Str(strip(user_text)) # Get(current_state, "booking_time")
    /\ ret_state = current_state

\* C2: when the model does not respond within the timeout, generate_reply
\* returns without waiting for the model call to complete: a call whose
\* timeout has fired is never blocked on the model call that is still running.
C2_TimeoutDoesNotWaitForModel == ~(pc = "shutdown" /\ worker = "running")

\* C3: every return of generate_reply carries a non-empty reply.
C3_ReplyNeverEmpty == pc = "returned" => reply # <<>>

\* the model answered, and every sentence of its text re-asks a field that
\* the post-extraction state holds
C3_Witness ==
    /\ pc = "returned"
    /\ worker = "response"
    /\ strip(response_text) # <<>>
    /\ Filtered(SplitAfter(strip(response_text)), new_state) = <<>>
    /\ Truthy(Get(new_state, "treatment"))
    /\ Truthy(Get(new_state, "booking_time"))
    /\ quick_rule_reply(user_text, new_state) = <<>>
    /\ reply # <<>>

\* C4: generate_reply never raises, and the state it returns is a valid one
\* (a dict), whatever state value the caller supplies.
C4_NeverRaises ==
    /\ pc # "raised"
    /\ pc = "returned" => ret_state.type = "dict"

\* C5: for the empty utterance the call returns at once the canned reply and
\* the state it was given; the model is not invoked.
C5_EmptyUtterance ==
    (pc # "idle" /\ user_text = <<>>) =>
        /\ pc = "returned"
        /\ reply = M_not_heard
        /\ reply # <<>>
        /\ ret_state = current_state
        /\ model_calls = 0
        /\ worker = "none"

\* the empty utterance, with a state that holds a treatment
C5_Witness ==
    /\ pc = "returned"
    /\ user_text = <<>>
    /\ Truthy(Get(current_state, "treatment"))
    /\ ret_state = current_state

\* C6: when the classifier approves the turn and the rule responder has a
\* reply (both on the post-extraction state), the call returns that reply
\* with the post-extraction state and never invokes the model.
C6_QuickPathNeverCallsModel ==
    LET ns == update_conversation_state(current_state, user_text).value
    IN  (/\ pc \in {"pending", "shutdown", "returned"}
         /\ user_text # <<>>
         /\ _should_use_quick_path(user_text, ns)
         /\ quick_rule_reply(user_text, ns) # <<>>) =>
            /\ pc = "returned"
            /\ reply = quick_rule_reply(user_text, ns)
            /\ ret_state = ns
            /\ model_calls = 0
            /\ worker = "none"

\* a turn answered by the quick path whose approval rests on the treatment
\* extracted in this very turn
C6_Witness ==
    /\ pc = "returned"
    /\ path = "quick"
    /\ ~_should_use_quick_path(user_text, current_state)
    /\ ret_state # current_state
    /\ model_calls = 0

\* the state of a session that has extracted nothing: no field is set
EmptyState(s) == ~Truthy(Get(s, "treatment")) /\ ~Truthy(Get(s, "booking_time"))

\* "預約", "約", "book", "改期": the booking keywords of the rule responder
C7_ResponderBookingKeywords == {<<"u9810", "u7d04">>, <<"u7d04">>, <<"b", "o", "o", "k">>, <<"u6539", "u671f">>}
\* the booking-intent signals of the classifier: the four above and
\* "幾點", "幾時", "邊日", "時間"
C7_ClassifierBookingSignals == C7_ResponderBookingKeywords \cup {<<"u5e7e", "u9ede">>, <<"u5e7e", "u6642">>, <<"u908a", "u65e5">>, <<"u6642", "u9593">>}

\* what C7 asks of the two functions, for the utterances that contain one of keys
C7_Coverage(keys) ==
    (AnyIn(keys, lower(arg_text)) /\ EmptyState(arg_state)) =>
        /\ fn = "_should_use_quick_path" => result.flag
        /\ fn = "quick_rule_reply" => (result.text = R_ask_treatment /\ result.text # <<>>)

\* C7 as stated: for every utterance containing a booking-intent signal of
\* the classifier and an empty state, _should_use_quick_path returns true and
\* quick_rule_reply returns the "which treatment" question.
C7_QuickPathCoverage_AnySignal == C7_Coverage(C7_ClassifierBookingSignals)

\* C7 as amended: for every utterance containing a booking keyword of the
\* rule responder (預約, 約, book, 改期) and an empty state,
\* _should_use_quick_path returns true and quick_rule_reply returns the
\* non-empty "which treatment" question.
C7_QuickPathCoverage == C7_Coverage(C7_ResponderBookingKeywords)

\* quick_rule_reply has answered "book" (in any case) on an empty state
C7_Witness ==
    /\ fn = "quick_rule_reply"
    /\ Contains(<<"b", "o", "o", "k">>, lower(arg_text))
    /\ ~AnyIn({<<"u9810", "u7d04">>, <<"u7d04">>, <<"u6539", "u671f">>}, arg_text)
    /\ EmptyState(arg_state)
    /\ result.text = R_ask_treatment

\* the sentences C8 wants kept: those that are not blank and hold no marker
\* of a field that is set
C8_Kept ==
    SelectSeq(SplitAfter(arg_text),
              LAMBDA s : /\ strip(s) # <<>>
                         /\ ~(~Get(arg_state, "treatment").isNone /\ AnyIn(treatment_markers, s))
                         /\ ~(~Get(arg_state, "booking_time").isNone /\ AnyIn(time_markers, s)))

\* C8: from a text of several sentences, some of them re-asking a field that
\* is set, apply_hard_rules_to_reply removes exactly the sentences that contain a
\* "re-asks treatment" marker when treatment is set, or a "re-asks time"
\* marker when booking_time is set, and keeps the others in their order.
C8_NoRepeatedQuestions ==
    (fn = "apply_hard_rules_to_reply" /\ Len(C8_Kept) < Len(SplitAfter(arg_text)) /\ C8_Kept # <<>>) =>
        /\ result.exc = "none"
        /\ result.text = strip_brackets_and_symbols(Cleaned(StripAll(C8_Kept)))

\* the replies of each branch of quick_rule_reply, for a state
C9_BookingReplies(s) ==
    {R_ask_treatment, R_ask_time(Get(s, "treatment").s),
     R_confirm(Get(s, "booking_time").s, Get(s, "treatment").s)}
C9_PriceReplies(s) ==
    {R_price_basic, R_price_deep, R_price_other(Get(s, "treatment").s), R_price_list}
C9_ServiceReplies(s) == {R_service(Get(s, "treatment").s)}
C9_FaqReplies == {R_hours, R_location}
\* the tests of the four branches
C9_IsBooking == AnyIn({<<"u9810", "u7d04">>, <<"u7d04">>, <<"b", "o", "o", "k">>, <<"u6539", "u671f">>}, lower(arg_text))
C9_IsPrice == AnyIn({<<"u5e7e", "u9322">>, <<"u5e7e", "u591a", "u9322">>, <<"u50f9", "u9322">>, <<"u8cbb", "u7528">>}, lower(arg_text))
C9_IsService ==
    AnyIn({<<"f", "a", "c", "i", "a", "l">>, <<"u6e05", "u6f54">>, <<"u76ae", "u819a">>}, lower(arg_text)) /\ Truthy(Get(arg_state, "treatment"))
C9_IsFaq == AnyIn({<<"u71df", "u696d", "u6642", "u9593">>, <<"u5e7e", "u6642", "u958b">>, <<"u5e7e", "u6642", "u6536">>, <<"u4f4d", "u7f6e">>, <<"u5730", "u5740">>, <<"u908a", "u5ea6">>}, lower(arg_text))

\* C9: quick_rule_reply answers by the first branch that matches, in the
\* order booking, price, service confirmation, static FAQ, and returns the
\* empty string exactly when none matches.
C9_PriorityOrder ==
    fn = "quick_rule_reply" =>
        /\ C9_IsBooking => result.text \in C9_BookingReplies(arg_state)
        /\ (~C9_IsBooking /\ C9_IsPrice) => result.text \in C9_PriceReplies(arg_state)
        /\ (~C9_IsBooking /\ ~C9_IsPrice /\ C9_IsService) =>
               result.text \in C9_ServiceReplies(arg_state)
        /\ (~C9_IsBooking /\ ~C9_IsPrice /\ ~C9_IsService /\ C9_IsFaq) =>
               result.text \in C9_FaqReplies
        /\ result.text = <<>> <=> ~(C9_IsBooking \/ C9_IsPrice \/ C9_IsService \/ C9_IsFaq)

\* an utterance that matches the booking and the price branch, on a state
\* that holds a treatment, is answered by the booking branch
C9_Witness ==
    /\ fn = "quick_rule_reply"
    /\ C9_IsBooking
    /\ C9_IsPrice
    /\ Truthy(Get(arg_state, "treatment"))
    /\ result.text \in C9_BookingReplies(arg_state)
    /\ result.text \notin C9_PriceReplies(arg_state) \cup C9_ServiceReplies(arg_state)

\* the reply names the price of basic facial, $480, and no other price
C10_NamesBasicPrice(text) ==
    /\ Contains(<<"$", "4", "8", "0">>, text)
    /\ ~Contains(<<"$", "6", "8", "0">>, text)
    /\ ~Contains(<<"$", "1", "8", "0", "0">>, text)

\* C10 as stated: with treatment = "basic facial", for every utterance that
\* contains a price keyword the rule reply contains the price $480.
C10_PriceExactness_AnyUtterance ==
    (/\ fn = "quick_rule_reply"
     /\ Get(arg_state, "treatment") = Str(T_basic)
     /\ C9_IsPrice) => C10_NamesBasicPrice(result.text)

\* C10 as amended: with treatment = "basic facial", for every utterance that
\* contains a price keyword of the rule responder (幾錢, 幾多錢, 價錢, 費用)
\* and no booking keyword (預約, 約, book, 改期), the rule reply contains
\* the price $480.
C10_PriceExactness ==
    (/\ fn = "quick_rule_reply"
     /\ Get(arg_state, "treatment") = Str(T_basic)
     /\ C9_IsPrice
     /\ ~C9_IsBooking) => C10_NamesBasicPrice(result.text)

\* a price question on basic facial that also names another treatment
C10_Witness ==
    /\ fn = "quick_rule_reply"
    /\ Get(arg_state, "treatment") = Str(T_basic)
    /\ C9_IsPrice
    /\ ~C9_IsBooking
    /\ DetectTreatment(arg_text) = Str(T_deep)
    /\ result.text = R_price_basic

\* C11: on a turn whose utterance contains a booking keyword the reply asks
\* which service when the post-extraction state holds no treatment, asks for
\* the day and time, naming the treatment, when it holds no booking_time, and
\* confirms otherwise; a confirmation is returned only when both fields are
\* set, and it contains both values.
C11_IsConfirmation(text) == Contains(<<"u9ebb", "u7169", "u7559", "u4f4e", "u5168", "u540d", "u540c", "u96fb", "u8a71", "u865f", "u78bc">>, text)
C11_BookingProgression ==
    pc = "returned" =>
        LET t == Get(ret_state, "treatment")
            b == Get(ret_state, "booking_time")
        IN  /\ AnyIn({<<"u9810", "u7d04">>, <<"u7d04">>, <<"b", "o", "o", "k">>, <<"u6539", "u671f">>}, lower(user_text)) =>
                  /\ ~Truthy(t) => reply = R_ask_treatment
                  /\ (Truthy(t) /\ ~Truthy(b)) =>
                         (reply = R_ask_time(t.s) /\ Contains(t.s, reply))
                  /\ (Truthy(t) /\ Truthy(b)) => C11_IsConfirmation(reply)
            /\ C11_IsConfirmation(reply) =>
                  /\ Truthy(t) /\ Truthy(b)
                  /\ Contains(t.s, reply) /\ Contains(b.s, reply)

\* a booking turn is confirmed with the treatment and the time of earlier turns
C11_Witness ==
    /\ pc = "returned"
    /\ C11_IsConfirmation(reply)
    /\ DetectTreatment(user_text).isNone
    /\ ~AnyIn(time_keywords, user_text)
    /\ ret_state = current_state

\* the model call of this turn raised (the future holds its exception)
C12_ProviderError == pc = "returned" /\ path = "error" /\ worker = "error"

C13_NoRetry ==
    /\ model_calls <= 1
    /\ (pc = "returned" /\ path \in {"timeout", "error"}) =>
           (model_calls = 1 /\ worker \in {"response", "error"})
    /\ pc = "shutdown" => model_calls = 1

\* the call timed out, the model call raised later, and the call returned
C13_Witness ==
    /\ pc = "returned"
    /\ path = "timeout"
    /\ worker = "error"
    /\ model_calls = 1

\* every trackable field of a state is absent
C14_AllAbsent(s) == \A k \in TrackedFields : Get(s, k) = None

\* C14: a reset leaves the session with every trackable field absent, and the
\* turns that follow it extract as in a fresh session: once the fields are
\* absent, a field is only ever set by a turn that was sent with the fields
\* absent.
C14_ResetStartsFreshSession ==
    [][/\ Reset => C14_AllAbsent(state')
       /\ (C14_AllAbsent(state) /\ ~C14_AllAbsent(state')) => C14_AllAbsent(current_state)]_vars

\* the model outcome of a returned call: whether fut.result timed out, and
\* otherwise what the future held
C15_ModelOutcome(c) ==
    IF c.timed_out THEN <<"timeout", "none", <<>>>>
    ELSE <<"in time", c.worker, c.response_text>>

C17_OneSynthesisAtATime ==
    \A a, b \in Requests : (tts[a].pc = "speaking" /\ tts[b].pc = "speaking") => a = b

\* C17 as stated: at most one synthesis call is in progress at any time, and
\* every request waiting for the lock eventually synthesizes.
C17_SingleFlightEveryWaiter ==
    /\ []C17_OneSynthesisAtATime
    /\ \A r \in Requests : (tts[r].pc = "waiting") ~> (tts[r].pc = "speaking")

\* C17 as amended: at most one synthesis call is in progress at any time, and
\* the lock is not left free while requests wait: whenever it is free and a
\* request is waiting, a waiting request takes it and synthesizes, and a
\* synthesis in progress ends and frees the lock.
C17_SingleFlightSomeWaiter ==
    /\ []C17_OneSynthesisAtATime
    /\ (tts_lock = 0 /\ \E r \in Requests : tts[r].pc = "waiting")
           ~> (\E r \in Requests : tts_lock = r /\ tts[r].pc = "speaking")
    /\ \A r \in Requests : (tts_lock = r) ~> (tts_lock # r /\ tts[r].pc # "speaking")

\* one request synthesizes while every other request waits for the lock
C17_Witness ==
    \E r \in Requests :
        /\ tts[r].pc = "speaking" /\ tts_lock = r
        /\ \A q \in Requests \ {r} : tts[q].pc = "waiting"

\* the text of request r is in the synthesizer's hands
C18_Handed(r) == tts[r].pc \in {"waiting", "speaking"}

\* C18 as stated: the text handed to the synthesizer is never empty and never
\* longer than the configured count; a longer sanitized reply is cut to that
\* length; an empty sanitized reply returns failure without a synthesizer call.
C18_SynthTextBounds_AnyCount ==
    \A r \in Requests :
        LET sanitized == SanitizedReply[tts[r].reply_text]
        IN  /\ C18_Handed(r) =>
                  /\ tts[r].t # <<>>
                  /\ Len(tts[r].t) <= max_chars
                  /\ tts[r].t = IF Len(sanitized) > max_chars
                                THEN SubSeq(sanitized, 1, max_chars) ELSE sanitized
            /\ (tts[r].pc # "idle" /\ sanitized = <<>>) => (tts[r].pc = "done" /\ ~tts[r].ok)

\* C18 as amended: when the configured count is at least 1, the text handed
\* to the synthesizer is never empty and never longer than that count; a
\* longer sanitized reply is cut to that length; an empty sanitized reply
\* returns failure without a synthesizer call, whatever the count.
C18_SynthTextBounds ==
    \A r \in Requests :
        LET sanitized == SanitizedReply[tts[r].reply_text]
        IN  /\ (C18_Handed(r) /\ max_chars >= 1) =>
                  /\ tts[r].t # <<>>
                  /\ Len(tts[r].t) <= max_chars
                  /\ tts[r].t = IF Len(sanitized) > max_chars
                                THEN SubSeq(sanitized, 1, max_chars) ELSE sanitized
            /\ (tts[r].pc # "idle" /\ sanitized = <<>>) => (tts[r].pc = "done" /\ ~tts[r].ok)

\* a reply longer than the default count is being synthesized, cut to it,
\* while another request got a reply that is empty once sanitized
C18_Witness ==
    \E r, q \in Requests :
        /\ max_chars = MaxReplyCharsDefault
        /\ tts[r].pc = "speaking"
        /\ Len(SanitizedReply[tts[r].reply_text]) > MaxReplyCharsDefault
        /\ Len(tts[r].t) = MaxReplyCharsDefault
        /\ tts[q].pc = "done" /\ tts[q].reply_text # <<>>
        /\ SanitizedReply[tts[q].reply_text] = <<>>

\* C19: the output of sanitize_tts_text holds no parenthesis, half-width or
\* full-width, so no parenthetical span either.
C19_NoParenthesisLeft ==
    fn = "sanitize_tts_text" =>
        \A i \in 1..Len(result.text) : result.text[i] \notin OpenParens \cup CloseParens

\* the treatments an utterance signals, by their place in the detection
\* order: 1 deep-cleanse facial, 2 basic facial, 3 laser, 4 body massage
C20_Signalled(u) ==
    {n \in 1..4 :
        \/ n = 1 /\ (Contains(<<"u6df1", "u5c64", "u6e05", "u6f54">>, u) \/ Contains(<<"d", "e", "e", "p">>, lower(u)))
        \/ n = 2 /\ Contains(<<"b", "a", "s", "i", "c">>, lower(u)) /\ Contains(<<"f", "a", "c", "i", "a", "l">>, lower(u))
        \/ n = 3 /\ (Contains(<<"u76ae", "u79d2">>, u) \/ Contains(<<"u6fc0", "u5149">>, u))
        \/ n = 4 /\ (Contains(<<"u6309", "u6469">>, u) \/ Contains(<<"b", "o", "d", "y">>, lower(u)))}
C20_InOrder == <<T_deep, T_basic, T_laser, T_massage>>

\* C20: from a state with no treatment and an utterance that signals two or
\* more treatments, update_conversation_state records the signalled
\* treatment that is first in the detection order, and only that one.
C20_FirstInDetectionOrder ==
    (/\ fn = "update_conversation_state"
     /\ arg_state.type = "dict"
     /\ ~Truthy(Get(arg_state, "treatment"))
     /\ Cardinality(C20_Signalled(arg_text)) >= 2)
    => \E n \in C20_Signalled(arg_text) :
           /\ \A m \in C20_Signalled(arg_text) : n <= m
           /\ Get(result.state, "treatment") = Str(C20_InOrder[n])

\* an utterance that names the laser and the massage got the laser recorded
C20_Witness ==
    /\ fn = "update_conversation_state"
    /\ ~Truthy(Get(arg_state, "treatment"))
    /\ C20_Signalled(arg_text) = {3, 4}
    /\ Get(result.state, "treatment") = Str(T_laser)

\* two states hold the same treatment, and both or neither hold a booking_time
C21_SameFields(a, b) ==
    /\ Get(a, "treatment") = Get(b, "treatment")
    /\ Truthy(Get(a, "booking_time")) = Truthy(Get(b, "booking_time"))

\* C21: update_conversation_state sets the same fields for an utterance as
\* for the same utterance with its Latin letters in lower case, the time
\* signals AM and PM included.
C21_CaseInsensitiveExtraction ==
    (fn = "update_conversation_state" /\ arg_state.type = "dict") =>
        C21_SameFields(result.state, update_conversation_state(arg_state, lower(arg_text)).value)

\* C22: when fut.result() returns a response in time, generate_reply returns
\* the consistency-filtered text with the post-extraction state if the
\* extracted text is not empty, and the "cannot respond" message if it is.
C22_ModelReplyReturned ==
    [][(pc = "pending" /\ worker = "response" /\ pc' = "returned") =>
          /\ ret_state' = new_state
          /\ IF _extract_text_from_response(response_text') # <<>>
             THEN reply' = FilterBody(_extract_text_from_response(response_text'), new_state)
             ELSE reply' = M_cannot_respond]_vars

\* C23: a reply of quick_rule_reply, returned on the quick path or as the
\* fallback, holds no marker of a question about the time when booking_time
\* is set, and none of a question about the treatment when treatment is set.
C23_RuleReplyConsistent ==
    (/\ pc = "returned"
     /\ path \in {"quick", "timeout", "error"}
     /\ reply = quick_rule_reply(user_text, ret_state)
     /\ reply # <<>>)
    => /\ Truthy(Get(ret_state, "booking_time")) => ~AnyIn(time_markers, reply)
       /\ Truthy(Get(ret_state, "treatment")) => ~AnyIn(treatment_markers, reply)

\* the classifier approves the turn in progress and the rule responder has
\* no reply for it
C24_ApprovedWithoutReply ==
    /\ pc # "idle"
    /\ user_text # <<>>
    /\ _should_use_quick_path(user_text, new_state)
    /\ quick_rule_reply(user_text, new_state) = <<>>

\* C24: a turn the classifier approves but the rule responder has no reply
\* for goes on to the model call, as a turn that was not approved does, and
\* its reply is not empty.
C24_FallThrough ==
    C24_ApprovedWithoutReply =>
        /\ model_calls = 1
        /\ path # "quick"
        /\ generate_reply_begin(user_text, current_state) =
               Outcome("pending", "submit", <<>>, new_state)
        /\ pc = "returned" => reply # <<>>

\* an approved turn without a rule reply has returned after its model call
C24_Witness ==
    /\ C24_ApprovedWithoutReply
    /\ pc = "returned"
    /\ worker \in {"response", "error"}

\* C25: for a non-empty utterance the returned state is
\* update_conversation_state(input state, utterance), on every path.
C25_ReturnedStateIsExtraction ==
    (pc = "returned" /\ user_text # <<>>) =>
        /\ update_conversation_state(current_state, user_text).exc = "none"
        /\ ret_state = update_conversation_state(current_state, user_text).value

\* on each of the paths a turn has returned a field it extracted
C25_Extracted ==
    /\ pc = "returned"
    /\ \E k \in TrackedFields : Truthy(Get(ret_state, k)) /\ ~Truthy(Get(current_state, k))
C25_Witness ==
    /\ C25_Extracted
    /\ path = "timeout"
    /\ model_calls = 1

\* a treatment of the catalog or none; a booking time of 1..50 characters or
\* none, and neither field set to a value that is falsy without being None
C26_WellFormed(s) ==
    /\ s.type = "dict"
    /\ LET t == Get(s, "treatment")
           b == Get(s, "booking_time")
       IN  /\ t.isNone \/ t.s \in Catalog
           /\ b.isNone \/ (Len(b.s) >= 1 /\ Len(b.s) <= BookingTimeMax)
           /\ Truthy(t) = ~t.isNone
           /\ Truthy(b) = ~b.isNone

\* C26: every state a session reaches, and every state a turn returns, holds
\* a catalog treatment or none and a booking time of at most 50 characters
\* or none, so the truthiness tests and the "is not None" tests agree.
C26_StateWellFormed ==
    /\ C26_WellFormed(state)
    /\ pc = "returned" => C26_WellFormed(ret_state)

\* the session holds a booking time cut to 50 characters
C26_Witness ==
    /\ Truthy(Get(state, "booking_time"))
    /\ Len(Get(state, "booking_time").s) = BookingTimeMax
    /\ Get(state, "booking_time").s = Prefix(LongUtterance, BookingTimeMax)

=============================================================================
